---- MODULE Spec2Model ----
(***************************************************************************)
(* Overdue-interest calculator for national pension contributions          *)
(* (src/app.py): the rate table, the deadline resolver and the             *)
(* year-segmented interest calculation.                                    *)
(*                                                                         *)
(* Python floats are IEEE-754 binary64.  They are modelled bit-exactly:    *)
(* a non-negative float is a record [m, e] standing for m * 2^e, where m   *)
(* is a 53-bit natural number kept as a little-endian sequence of 13-bit   *)
(* limbs (TLC integers are 32 bits wide), and every arithmetic operation   *)
(* rounds to nearest, ties to even.                                        *)
(***************************************************************************)
EXTENDS Integers, Sequences, FiniteSets, TLC

(***************************************************************************)
(* Natural numbers of arbitrary size: little-endian limbs, base 2^13,      *)
(* no leading (high) zero limb; zero is the empty sequence.                *)
(***************************************************************************)
LimbBase == 2^13

Limbs == Seq(Nat)

\* The arithmetic is written as functions, not operators: a function is
\* applied to the values of its arguments, so that no argument is computed
\* more than once.
BNorm[a \in Limbs] ==
    IF a = <<>> THEN <<>>
    ELSE IF a[Len(a)] = 0 THEN BNorm[SubSeq(a, 1, Len(a) - 1)]
    ELSE a

BFromInt[n \in Nat] ==
    IF n = 0 THEN <<>> ELSE <<n % LimbBase>> \o BFromInt[n \div LimbBase]

BToInt[a \in Limbs] ==
    IF a = <<>> THEN 0 ELSE Head(a) + LimbBase * BToInt[Tail(a)]

BAddC[a \in Limbs, b \in Limbs, c \in Nat] ==
    IF a = <<>> /\ b = <<>> THEN (IF c = 0 THEN <<>> ELSE <<c>>)
    ELSE LET x == IF a = <<>> THEN 0 ELSE Head(a)
             y == IF b = <<>> THEN 0 ELSE Head(b)
             s == x + y + c
         IN  <<s % LimbBase>>
               \o BAddC[IF a = <<>> THEN <<>> ELSE Tail(a),
                        IF b = <<>> THEN <<>> ELSE Tail(b),
                        s \div LimbBase]

BAdd[a \in Limbs, b \in Limbs] == BAddC[a, b, 0]

BMulC[a \in Limbs, k \in Nat, c \in Nat] ==
    IF a = <<>> THEN BFromInt[c]
    ELSE LET s == Head(a) * k + c
         IN  <<s % LimbBase>> \o BMulC[Tail(a), k, s \div LimbBase]

\* a * k for a small factor 0 <= k < 2^17
BMulSmall[a \in Limbs, k \in Nat] == IF k = 0 THEN <<>> ELSE BMulC[a, k, 0]

\* a * 2^13
BShiftLimb[a \in Limbs] == IF a = <<>> THEN <<>> ELSE <<0>> \o a

BMul[a \in Limbs, b \in Limbs] ==
    IF a = <<>> \/ b = <<>> THEN <<>>
    ELSE BAdd[BMulSmall[a, Head(b)], BShiftLimb[BMul[a, Tail(b)]]]

\* a quotient with its remainder
QuotRem == [q : Limbs, r : Nat]

\* one step of the long division: the next lower limb h is brought down
BDivStep[hi \in QuotRem, h \in Nat, d \in Nat] ==
    LET cur == hi.r * LimbBase + h
    IN  [q |-> <<cur \div d>> \o hi.q, r |-> cur % d]

BDivModRaw[a \in Limbs, d \in Nat] ==
    IF a = <<>> THEN [q |-> <<>>, r |-> 0]
    ELSE BDivStep[BDivModRaw[Tail(a), d], Head(a), d]

BNormQ[qr \in QuotRem] == [q |-> BNorm[qr.q], r |-> qr.r]

\* quotient and remainder of a by a small divisor 0 < d < 2^17
BDivMod[a \in Limbs, d \in Nat] == BNormQ[BDivModRaw[a, d]]

SmallBitLen[x \in Nat] ==
    CHOOSE k \in 0..13 : x < 2^k /\ (k = 0 \/ x >= 2^(k - 1))

BBitLen[a \in Limbs] ==
    IF a = <<>> THEN 0 ELSE 13 * (Len(a) - 1) + SmallBitLen[a[Len(a)]]

BOdd[a \in Limbs] == a # <<>> /\ Head(a) % 2 = 1

\* a * 2^s
BShl[a \in Limbs, s \in Nat] ==
    IF a = <<>> THEN <<>>
    ELSE BMulSmall[[i \in 1..(s \div 13) |-> 0] \o a, 2^(s % 13)]

\* floor(a / 2^s)
BShr[a \in Limbs, s \in Nat] ==
    IF s \div 13 >= Len(a) THEN <<>>
    ELSE BDivMod[SubSeq(a, (s \div 13) + 1, Len(a)), 2^(s % 13)].q

(***************************************************************************)
(* IEEE-754 binary64, non-negative normal range.                           *)
(***************************************************************************)
Float == [m : Limbs, e : Int]

FZero == [m |-> <<>>, e |-> 0]

\* the mantissa q after rounding, renormalised when it reached 2^53
FRenorm[q \in Limbs, e \in Int] ==
    IF BBitLen[q] > 53 THEN [m |-> BShr[q, 1], e |-> e + 1]
    ELSE [m |-> q, e |-> e]

\* q = floor(N / 2^sh), q1 = floor(N / 2^(sh-1)): round to nearest, ties to
\* even; sticky tells of a non-zero fraction below N
FRoundQ[q \in Limbs, q1 \in Limbs, N \in Limbs, sh \in Nat, e \in Int, sticky \in BOOLEAN] ==
    FRenorm[IF BOdd[q1] /\ (sticky \/ BOdd[q] \/ BShl[q1, sh - 1] # N)
            THEN BAdd[q, <<1>>] ELSE q,
            e + sh]

FRoundL[N \in Limbs, e \in Int, sticky \in BOOLEAN, L \in Nat] ==
    IF L <= 53 THEN [m |-> BShl[N, 53 - L], e |-> e - (53 - L)]
    ELSE FRoundQ[BShr[N, L - 53], BShr[N, L - 54], N, L - 53, e, sticky]

\* N * 2^e (plus a non-zero fraction of the last unit when sticky) rounded
\* to 53 significant bits, nearest, ties to even.
FRound[N \in Limbs, e \in Int, sticky \in BOOLEAN] ==
    IF N = <<>> THEN FZero ELSE FRoundL[N, e, sticky, BBitLen[N]]

\* float(n) for an int 0 <= n < 2^31
FFromInt[n \in Nat] == FRound[BFromInt[n], 0, FALSE]

\* x * y
FMul[x \in Float, y \in Float] == FRound[BMul[x.m, y.m], x.e + y.e, FALSE]

FDivQ[qr \in QuotRem, e \in Int] == FRound[qr.q, e, qr.r # 0]

\* x / d for an integer divisor 0 < d < 2^17
FDivInt[x \in Float, d \in Nat] == FDivQ[BDivMod[BShl[x.m, 26], d], x.e - 26]

FAddE[x \in Float, y \in Float, e \in Int] ==
    FRound[BAdd[BShl[x.m, x.e - e], BShl[y.m, y.e - e]], e, FALSE]

\* x + y
FAdd[x \in Float, y \in Float] ==
    IF x.m = <<>> THEN y
    ELSE IF y.m = <<>> THEN x
    ELSE FAddE[x, y, IF x.e < y.e THEN x.e ELSE y.e]

\* the float a decimal literal num/den denotes (den a power of ten)
FLit[num \in Nat, den \in Nat] == FDivInt[FFromInt[num], den]

\* math.floor(x), x >= 0
FFloor[x \in Float] ==
    IF x.m = <<>> THEN 0
    ELSE IF x.e >= 0 THEN BToInt[BShl[x.m, x.e]]
    ELSE BToInt[BShr[x.m, 0 - x.e]]

PyRoundQ[q \in Limbs, q1 \in Limbs, m \in Limbs, s \in Nat] ==
    BToInt[q] + (IF BOdd[q1] /\ (BOdd[q] \/ BShl[q1, s - 1] # m)
                 THEN 1 ELSE 0)

\* round(x), x >= 0: nearest integer, ties to even
PyRound[x \in Float] ==
    IF x.m = <<>> THEN 0
    ELSE IF x.e >= 0 THEN BToInt[BShl[x.m, x.e]]
    ELSE PyRoundQ[BShr[x.m, 0 - x.e], BShr[x.m, 0 - x.e - 1], x.m, 0 - x.e]

(***************************************************************************)
(* datetime.date: a record [year, month, day] of the proleptic Gregorian   *)
(* calendar; date arithmetic goes through the day ordinal, as in CPython.  *)
(***************************************************************************)
\* calendar.isleap
isleap(year) == year % 4 = 0 /\ (year % 100 # 0 \/ year % 400 = 0)

\* calendar.mdays[1..12]
mdays == <<31, 28, 31, 30, 31, 30, 31, 31, 30, 31, 30, 31>>

\* calendar.monthrange(year, month)[1]
monthrange_days(year, month) ==
    mdays[month] + (IF month = 2 /\ isleap(year) THEN 1 ELSE 0)

MkDate(y, m, d) == [year |-> y, month |-> m, day |-> d]

days_before_year(year) ==
    LET y == year - 1
    IN  y * 365 + (y \div 4) - (y \div 100) + (y \div 400)

\* the days of a common year before the first of each month
DAYS_BEFORE_MONTH == <<0, 31, 59, 90, 120, 151, 181, 212, 243, 273, 304, 334>>

days_before_month(year, month) ==
    DAYS_BEFORE_MONTH[month] + (IF month > 2 /\ isleap(year) THEN 1 ELSE 0)

\* date.toordinal(): 0001-01-01 is day 1
toordinal(d) ==
    days_before_year(d.year) + days_before_month(d.year, d.month) + d.day

\* date.fromordinal(n)
fromordinal(n) ==
    LET n0   == n - 1
        n400 == n0 \div 146097
        r400 == n0 % 146097
        n100 == r400 \div 36524
        r100 == r400 % 36524
        n4   == r100 \div 1461
        r4   == r100 % 1461
        n1   == r4 \div 365
        r1   == r4 % 365
        year == n400 * 400 + 1 + n100 * 100 + n4 * 4 + n1
    IN  IF n1 = 4 \/ n100 = 4 THEN MkDate(year - 1, 12, 31)
        ELSE LET leapyear  == n1 = 3 /\ (n4 # 24 \/ n100 = 3)
                 guess     == (r1 + 50) \div 32
                 preceding == DAYS_BEFORE_MONTH[guess]
                                + (IF guess > 2 /\ leapyear THEN 1 ELSE 0)
                 month     == IF preceding > r1 THEN guess - 1 ELSE guess
                 before    == IF preceding > r1
                              THEN preceding - (mdays[month]
                                     + (IF month = 2 /\ leapyear THEN 1 ELSE 0))
                              ELSE preceding
             IN  MkDate(year, month, r1 - before + 1)

\* d + timedelta(days=k)
DatePlusDays(d, k) == fromordinal(toordinal(d) + k)

\* (a - b).days
DaysBetween(a, b) == toordinal(a) - toordinal(b)

\* a < b and a <= b on dates: lexicographic on (year, month, day)
DateLT(a, b) ==
    \/ a.year < b.year
    \/ a.year = b.year /\ a.month < b.month
    \/ a.year = b.year /\ a.month = b.month /\ a.day < b.day

DateLE(a, b) == a = b \/ DateLT(a, b)

\* min(a, b) on dates
DateMin(a, b) == IF DateLT(b, a) THEN b ELSE a

(***************************************************************************)
(* Deadline resolver                                                       *)
(***************************************************************************)
get_last_day_of_month(year, month) ==
    MkDate(year, month, monthrange_days(year, month))

\* the parity test inverted
coverage_end_month_m(month) == IF month % 2 = 0 THEN month + 1 ELSE month

coverage_end_month(month) == IF month % 2 # 0 THEN month + 1 ELSE month

calculate_deadline_from_period(roc_year, month) ==
    LET year           == roc_year + 1911
        deadline_month == coverage_end_month(month) + 2
    IN  IF deadline_month > 12
        THEN get_last_day_of_month(year + 1, deadline_month - 12)
        ELSE get_last_day_of_month(year, deadline_month)

(***************************************************************************)
(* Rate table                                                              *)
(***************************************************************************)
\* the decimal literals of the table, in thousandths of a percent point
RateLiterals ==
    [y \in 2009..2026 |->
        CASE y = 2009 -> 1390
          [] y = 2010 -> 830
          [] y = 2011 -> 1080
          [] y \in 2012..2015 -> 1370
          [] y = 2016 -> 1200
          [] y \in 2017..2020 -> 1040
          [] y \in 2021..2022 -> 780
          [] y = 2023 -> 1475
          [] y = 2024 -> 1600
          [] y \in 2025..2026 -> 1725]

\* the dict as the interpreter builds it: each literal becomes a float
RateTable == [y \in DOMAIN RateLiterals |-> FLit[RateLiterals[y], 1000]]

MaxKey(table) == CHOOSE k \in DOMAIN table : \A j \in DOMAIN table : j <= k

\* the fallback taking the earliest tabulated year
get_rate_m(table, year) ==
    IF year \in DOMAIN table THEN table[year]
    ELSE table[CHOOSE k \in DOMAIN table : \A j \in DOMAIN table : k <= j]

get_rate(table, year) ==
    IF year \in DOMAIN table THEN table[year] ELSE table[MaxKey(table)]

(***************************************************************************)
(* Inputs                                                                  *)
(***************************************************************************)
MaxRocYear == 112
MaxPrincipalUnits == 2
MaxNearDays == 2

\* contribution periods: era years 112.., and the years whose period 11/12
\* is due in February 2100 and February 2400
RocYears == (112..MaxRocYear) \cup {188, 488}
Months == 1..12

\* deadlines typed into the form instead of derived from a period
ManualDeadlines ==
    {MkDate(2007, 12, 30), MkDate(2008, 12, 31), MkDate(2022, 12, 1)}

Principals == {5000 * k : k \in 0..MaxPrincipalUnits}

\* payment dates, as days after the deadline
LateDays == ((0 - 1)..MaxNearDays) \cup {90, 366, 800}

NoDate == MkDate(0, 0, 0)

(***************************************************************************)
(* State                                                                   *)
(***************************************************************************)
VARIABLES
    INTEREST_RATES,      \* the module-level dict
    period,              \* <<roc_year, month>> the deadline came from, or <<>>
    principal,           \* calculate_interest arguments
    deadline_date,
    payment_date,
    pc,                  \* "input", "deadline", "info", "check", "loop", "done"
    start_date,          \* calculate_interest locals
    end_date,
    iter_date,
    breakdown,
    total_interest_raw,
    final_interest,
    prev_payment,        \* the previous completed call on the same principal
    prev_final           \* and deadline: its payment date and result

vars == <<INTEREST_RATES, period, principal, deadline_date, payment_date, pc,
          start_date, end_date, iter_date, breakdown, total_interest_raw,
          final_interest, prev_payment, prev_final>>

locals == <<start_date, end_date, iter_date, breakdown, total_interest_raw,
            final_interest>>

Init ==
    /\ INTEREST_RATES = RateTable
    /\ period = <<>>
    /\ principal = 0
    /\ deadline_date = NoDate
    /\ payment_date = NoDate
    /\ pc = "input"
    /\ start_date = NoDate
    /\ end_date = NoDate
    /\ iter_date = NoDate
    /\ breakdown = <<>>
    /\ total_interest_raw = FZero
    /\ final_interest = 0
    /\ prev_payment = NoDate
    /\ prev_final = 0

(***************************************************************************)
(* calculate_interest, step by step                                        *)
(***************************************************************************)
\* the window starting a day before the deadline instead of a day after
StartDate_m(deadline) == DatePlusDays(deadline, 0 - 1)

StartDate(deadline) == DatePlusDays(deadline, 1)

EndDate(payment) == DatePlusDays(payment, 0 - 1)

\* the early return also taken for a window of a single day
WindowEmpty_m(start, end) == DateLE(end, start)

\* the guard of the early return
WindowEmpty(start, end) == DateLT(end, start)

\* the segment running to the end of the year, the window end forgotten
SegmentEnd_m(iter, end) == MkDate(iter.year, 12, 31)

\* the end of the segment that starts at iter within the window ending at end
SegmentEnd(iter, end) == DateMin(MkDate(iter.year, 12, 31), end)

\* the inclusive day count without its + 1
DaysInSegment_m(iter, segment_end) == DaysBetween(segment_end, iter)

DaysInSegment(iter, segment_end) == DaysBetween(segment_end, iter) + 1

\* a 360-day year
InterestSegment_m(p, rate, days) ==
    FDivInt[FMul[FMul[FMul[FFromInt[p], rate], FLit[1, 100]], FFromInt[days]],
            360]

\* (principal * rate * 0.01 * days_in_segment) / 365
InterestSegment(p, rate, days) ==
    FDivInt[FMul[FMul[FMul[FFromInt[p], rate], FLit[1, 100]], FFromInt[days]],
            365]

\* math.floor(interest_segment * 10) / 10.0
InterestTruncated(interest_segment) ==
    FDivInt[FFromInt[FFloor[FMul[interest_segment, FFromInt[10]]]], 10]

\* int(round(total_interest_raw + 0.00001))
FinalInterest(total) == PyRound[FAdd[total, FLit[1, 100000]]]

NextIterDate(segment_end) == DatePlusDays(segment_end, 1)

\* the loop stopping one day short
LoopCondition_m(iter, end) == DateLT(iter, end)

\* the condition of the while loop
LoopCondition(iter, end) == DateLE(iter, end)

\* the total assigned instead of accumulated
Accumulate_m(total, interest_truncated) == interest_truncated

\* total_interest_raw += interest_truncated
Accumulate(total, interest_truncated) == FAdd[total, interest_truncated]

\* entry of calculate_interest: the window bounds
Enter(p, payment) ==
    /\ principal' = p
    /\ payment_date' = payment
    /\ start_date' = StartDate(deadline_date)
    /\ end_date' = EndDate(payment)
    /\ iter_date' = NoDate
    /\ breakdown' = <<>>
    /\ total_interest_raw' = FZero
    /\ final_interest' = 0
    /\ pc' = "check"
    /\ UNCHANGED <<INTEREST_RATES, period, deadline_date>>

\* the deadline is derived from the contribution period read from the bill
ResolveDeadline(roc_year, month) ==
    /\ pc = "input"
    /\ period' = <<roc_year, month>>
    /\ deadline_date' = calculate_deadline_from_period(roc_year, month)
    /\ pc' = "deadline"
    /\ UNCHANGED <<INTEREST_RATES, principal, payment_date, locals,
                   prev_payment, prev_final>>

\* the deadline is typed into the form
ManualDeadline(d) ==
    /\ pc = "input"
    /\ deadline_date' = d
    /\ pc' = "deadline"
    /\ UNCHANGED <<INTEREST_RATES, period, principal, payment_date, locals,
                   prev_payment, prev_final>>

\* the button handler, payment within the deadline: no calculation
ButtonInTime(p, payment) ==
    /\ pc = "deadline"
    /\ DateLE(payment, deadline_date)
    /\ principal' = p
    /\ payment_date' = payment
    /\ pc' = "info"
    /\ UNCHANGED <<INTEREST_RATES, period, deadline_date, locals,
                   prev_payment, prev_final>>

\* the button handler, late payment: calls calculate_interest
ButtonCalculate(p, payment) ==
    /\ pc = "deadline"
    /\ ~ DateLE(payment, deadline_date)
    /\ Enter(p, payment)
    /\ UNCHANGED <<prev_payment, prev_final>>

\* calculate_interest called on arbitrary arguments
CallCalculateInterest(p, payment) ==
    /\ pc = "deadline"
    /\ Enter(p, payment)
    /\ UNCHANGED <<prev_payment, prev_final>>

\* a further call for a later payment date, same principal and deadline
CallAgain(payment) ==
    /\ pc = "done"
    /\ DateLE(payment_date, payment)
    /\ prev_payment' = payment_date
    /\ prev_final' = final_interest
    /\ Enter(principal, payment)

EarlyReturn ==
    /\ pc = "check"
    /\ WindowEmpty(start_date, end_date)
    /\ final_interest' = 0
    /\ breakdown' = <<>>
    /\ pc' = "done"
    /\ UNCHANGED <<INTEREST_RATES, period, principal, deadline_date,
                   payment_date, start_date, end_date, iter_date,
                   total_interest_raw, prev_payment, prev_final>>

EnterLoop ==
    /\ pc = "check"
    /\ ~ WindowEmpty(start_date, end_date)
    /\ breakdown' = <<>>
    /\ total_interest_raw' = FZero
    /\ iter_date' = start_date
    /\ pc' = "loop"
    /\ UNCHANGED <<INTEREST_RATES, period, principal, deadline_date,
                   payment_date, start_date, end_date, final_interest,
                   prev_payment, prev_final>>

LoopBody ==
    /\ pc = "loop"
    /\ LoopCondition(iter_date, end_date)
    /\ LET year               == iter_date.year
           segment_end        == SegmentEnd(iter_date, end_date)
           days_in_segment    == DaysInSegment(iter_date, segment_end)
           rate               == get_rate(INTEREST_RATES, year)
           interest_segment   == InterestSegment(principal, rate,
                                                 days_in_segment)
           interest_truncated == InterestTruncated(interest_segment)
       IN  /\ breakdown' = Append(breakdown,
                                  [year |-> year, days |-> days_in_segment,
                                   rate |-> rate,
                                   interest |-> interest_truncated])
           /\ total_interest_raw' = Accumulate(total_interest_raw,
                                               interest_truncated)
           /\ iter_date' = NextIterDate(segment_end)
    /\ UNCHANGED <<INTEREST_RATES, period, principal, deadline_date,
                   payment_date, pc, start_date, end_date, final_interest,
                   prev_payment, prev_final>>

Return ==
    /\ pc = "loop"
    /\ ~ LoopCondition(iter_date, end_date)
    /\ final_interest' = FinalInterest(total_interest_raw)
    /\ pc' = "done"
    /\ UNCHANGED <<INTEREST_RATES, period, principal, deadline_date,
                   payment_date, start_date, end_date, iter_date, breakdown,
                   total_interest_raw, prev_payment, prev_final>>

\* the payment dates tried against the current deadline
PaymentDates ==
    IF pc \notin {"deadline", "done"} THEN {}
    ELSE {DatePlusDays(deadline_date, k) : k \in LateDays}

Next ==
    \/ \E y \in RocYears, m \in Months : ResolveDeadline(y, m)
    \/ \E d \in ManualDeadlines : ManualDeadline(d)
    \/ \E p \in Principals, d \in PaymentDates : ButtonInTime(p, d)
    \/ \E p \in Principals, d \in PaymentDates : ButtonCalculate(p, d)
    \/ \E p \in Principals, d \in PaymentDates : CallCalculateInterest(p, d)
    \/ \E d \in PaymentDates : CallAgain(d)
    \/ EarlyReturn
    \/ EnterLoop
    \/ LoopBody
    \/ Return

Spec == Init /\ [][Next]_vars

\* calculate_interest is straight-line code: once entered it runs on
FairSpec ==
    /\ Spec
    /\ WF_vars(EarlyReturn)
    /\ WF_vars(EnterLoop)
    /\ WF_vars(LoopBody)
    /\ WF_vars(Return)

(***************************************************************************)
(* Properties                                                              *)
(***************************************************************************)
Returned == pc = "done"

\* the call returned through the early return: the loop was never entered
EarlyReturned == pc = "done" /\ iter_date = NoDate

\* the number of days of the accrual window, from the arguments alone
WindowDays == toordinal(payment_date) - toordinal(deadline_date) - 1

WindowStartOrd == toordinal(deadline_date) + 1
WindowEndOrd == toordinal(payment_date) - 1

RECURSIVE SumDays(_)
SumDays(rows) ==
    IF rows = <<>> THEN 0 ELSE Head(rows).days + SumDays(Tail(rows))

\* first and last day (as ordinals) of the part of the window inside year y
YearLo(y) ==
    LET jan1 == toordinal(MkDate(y, 1, 1))
    IN  IF jan1 > WindowStartOrd THEN jan1 ELSE WindowStartOrd

YearHi(y) ==
    LET dec31 == toordinal(MkDate(y, 12, 31))
    IN  IF dec31 < WindowEndOrd THEN dec31 ELSE WindowEndOrd

\* the float k/10, a value with one decimal
Tenths(k) == FDivInt[FFromInt[k], 10]

C3_DaysSumToWindow ==
    (Returned /\ WindowDays >= 1)
        => SumDays(breakdown) = DaysBetween(payment_date, deadline_date) - 1

\* a window over three calendar years, one of them a whole leap year
C3_Witness ==
    /\ Returned
    /\ Len(breakdown) >= 3
    /\ \E i \in 1..Len(breakdown) : breakdown[i].days = 366
    /\ SumDays(breakdown) = WindowDays

\* C4: the segments are the calendar years of the window, in order, from
\* the year of deadline + 1 day to the year of paymentDate - 1 day, each
\* covering the window's days of its year, and they tile the window.
C4_SegmentsPartitionWindow ==
    (Returned /\ WindowDays >= 1) =>
        LET n == Len(breakdown) IN
        /\ n >= 1
        /\ breakdown[1].year = fromordinal(WindowStartOrd).year
        /\ breakdown[n].year = fromordinal(WindowEndOrd).year
        /\ \A i \in 1..(n - 1) : breakdown[i + 1].year = breakdown[i].year + 1
        /\ \A i \in 1..n :
              breakdown[i].days
                  = YearHi(breakdown[i].year) - YearLo(breakdown[i].year) + 1
        /\ YearLo(breakdown[1].year) = WindowStartOrd
        /\ YearHi(breakdown[n].year) = WindowEndOrd
        /\ \A i \in 1..(n - 1) :
              YearLo(breakdown[i + 1].year) = YearHi(breakdown[i].year) + 1

\* a window that starts and ends inside a year, with whole years between
C4_Witness ==
    /\ Returned
    /\ Len(breakdown) >= 3
    /\ start_date.month = 12
    /\ end_date.month \in 2..11
    /\ breakdown[1].days < 365
    /\ breakdown[2].days >= 365

\* C5: every rate handed out by get_rate is the tabulated rate of the year
\* when the year is one of 2009..2026, and otherwise, for years below 2009
\* as for years above 2026, the rate of 2026, which is 1.725; the table
\* itself never changes.
C5_RateLookup ==
    /\ INTEREST_RATES = RateTable
    /\ DOMAIN INTEREST_RATES = 2009..2026
    /\ INTEREST_RATES[2026] = FLit[1725, 1000]
    /\ \A i \in 1..Len(breakdown) :
          breakdown[i].rate =
              IF breakdown[i].year \in 2009..2026
              THEN INTEREST_RATES[breakdown[i].year]
              ELSE FLit[1725, 1000]

\* one calculation over years before the table and years inside it
C5_Witness ==
    /\ Returned
    /\ \E i \in 1..Len(breakdown) :
          breakdown[i].year < 2009 /\ breakdown[i].rate = FLit[1725, 1000]
    /\ \E i \in 1..Len(breakdown) :
          breakdown[i].year = 2009 /\ breakdown[i].rate = FLit[1390, 1000]

\* the leap rule, spelled out
LeapRule(y) == (y % 4 = 0 /\ y % 100 # 0) \/ y % 400 = 0

LastDayRule(y, m) ==
    CASE m \in {1, 3, 5, 7, 8, 10, 12} -> 31
      [] m \in {4, 6, 9, 11} -> 30
      [] m = 2 -> IF LeapRule(y) THEN 29 ELSE 28

C7_EarlyReturnIffNotAfterDeadline ==
    Returned => (EarlyReturned <=> DateLE(payment_date, deadline_date))

\* C7 (amended): the early return is taken, with interest 0 and an empty
\* breakdown, exactly when paymentDate <= deadline + 1 day.
C7_EarlyReturnIffWindowEmpty ==
    Returned =>
        /\ EarlyReturned
              <=> (toordinal(payment_date) <= toordinal(deadline_date) + 1)
        /\ EarlyReturned => (final_interest = 0 /\ breakdown = <<>>)

\* a payment on the day after the deadline returns early
C7_Witness ==
    /\ EarlyReturned
    /\ principal > 0
    /\ payment_date = DatePlusDays(deadline_date, 1)

C8_Example ==
    /\ Returned
    /\ principal = 10000
    /\ deadline_date = MkDate(2022, 12, 1)
    /\ payment_date = MkDate(2023, 3, 1)

\* x is within 0.1 of k/10
About(x, k) == x \in {Tenths(k - 1), Tenths(k), Tenths(k + 1)}

\* C8 as claimed: two segments, 2022 with 30 days at 0.78 and about 6.8,
\* 2023 with 59 days at 1.475 and about 23.8, and a total of 30 or 31.
C8_ExampleAsClaimed ==
    C8_Example =>
        /\ Len(breakdown) = 2
        /\ breakdown[1].year = 2022
        /\ breakdown[1].days = 30
        /\ breakdown[1].rate = FLit[780, 1000]
        /\ About(breakdown[1].interest, 68)
        /\ breakdown[2].year = 2023
        /\ breakdown[2].days = 59
        /\ breakdown[2].rate = FLit[1475, 1000]
        /\ About(breakdown[2].interest, 238)
        /\ final_interest \in {30, 31}

\* C8 (amended): the first segment's interest is 6.4, the second's 23.8,
\* and the total is 30.
C8_ExampleAmended ==
    C8_Example =>
        /\ Len(breakdown) = 2
        /\ breakdown[1].year = 2022
        /\ breakdown[1].days = 30
        /\ breakdown[1].rate = FLit[780, 1000]
        /\ breakdown[1].interest = Tenths(64)
        /\ breakdown[2].year = 2023
        /\ breakdown[2].days = 59
        /\ breakdown[2].rate = FLit[1475, 1000]
        /\ breakdown[2].interest = Tenths(238)
        /\ final_interest = 30

C8_Witness ==
    /\ C8_Example
    /\ Len(breakdown) = 2
    /\ final_interest = 30

\* C9: every iteration of the loop moves iter_date forward, to January 1 of
\* the next year or past the window end; a call on a non-empty window
\* returns after (year of window end - year of window start + 1)
\* iterations; and every call returns.
C9_LoopTerminates ==
    /\ [][(pc = "loop" /\ pc' = "loop") =>
            /\ DateLT(iter_date, iter_date')
            /\ \/ iter_date' = MkDate(iter_date.year + 1, 1, 1)
               \/ DateLT(end_date, iter_date')]_vars
    /\ []((Returned /\ WindowDays >= 1) =>
            Len(breakdown) = fromordinal(WindowEndOrd).year
                               - fromordinal(WindowStartOrd).year + 1)
    /\ ((pc \in {"check", "loop"}) ~> Returned)

C9_Witness ==
    /\ Returned
    /\ Len(breakdown) = 4
    /\ DateLT(end_date, iter_date)

\* C10: of two calls on the same principal and deadline, the one with the
\* later payment date returns at least as much interest.
C10_MonotoneInPaymentDate ==
    (Returned /\ prev_payment # NoDate /\ DateLE(prev_payment, payment_date))
        => prev_final <= final_interest

\* the later payment date adds days in a further calendar year
C10_Witness ==
    /\ Returned
    /\ prev_payment # NoDate
    /\ DateLT(prev_payment, payment_date)
    /\ prev_payment.year < payment_date.year
    /\ 0 < prev_final
    /\ prev_final < final_interest
    /\ Len(breakdown) >= 2

\* the decimal rate of a year, in thousandths of a percent point
ExactRate(year) ==
    IF year \in DOMAIN RateLiterals THEN RateLiterals[year]
    ELSE RateLiterals[2026]

\* floor(p * rate * 0.01 * days / 365 * 10) in exact arithmetic
ExactTenths(p, rate, days) ==
    BToInt[BDivMod[BDivMod[BMul[BMul[BFromInt[p], BFromInt[rate]],
                                BFromInt[days]], 36500].q, 100].q]

RECURSIVE SumExactTenths(_, _)
SumExactTenths(p, rows) ==
    IF rows = <<>> THEN 0
    ELSE ExactTenths(p, ExactRate(Head(rows).year), Head(rows).days)
           + SumExactTenths(p, Tail(rows))

\* tenths rounded to the nearest integer, halves up
HalfUp(tenths) == (tenths + 5) \div 10

\* C2: for a non-empty window the returned interest is the sum of the
\* segments' interests, each truncated to one decimal, rounded to the
\* nearest integer with halves rounding up.
C2_TruncateSumRound ==
    (Returned /\ WindowDays >= 1) =>
        final_interest = HalfUp(SumExactTenths(principal, breakdown))

====
